---- MODULE Spec2Model ----
(***************************************************************************)
(* Model of GhostPostFetcher (src/pull_ghost_posts.py): the paginated      *)
(* fetch of posts from the upstream posts endpoint and the persistence of  *)
(* the fetched collection as a JSON dump, an index and per-post text files.*)
(*                                                                         *)
(* Text is modelled as sequences of one-character strings, Python values   *)
(* as pairs of a type tag and a value (a dict's value being a function     *)
(* from its keys), a JSON document as a tree whose string and number       *)
(* leaves are written out in characters, and the output directory as a     *)
(* function from paths to file contents.                                   *)
(***************************************************************************)
EXTENDS Integers, Sequences, FiniteSets, TLC

VARIABLES
    limit,       \* fetch_and_save/fetch_all_posts argument; 0 stands for None
    source,      \* number of posts the upstream source holds
    save_json,   \* fetch_and_save argument
    save_txt,    \* fetch_and_save argument
    pc,          \* position of the flow
    all_posts,   \* fetch_all_posts local: posts accumulated so far
    page,        \* fetch_all_posts local: next page number
    requests,    \* page requests issued so far, in order
    posts,       \* the collection handed to the persister
    dirs,        \* directories that exist
    fs,          \* files of the output directory: path -> content
    saved,       \* length of the saved_files save_as_txt returned, -1 before
    raised,      \* the exception the last operation raised, if any
    now          \* wall clock, in ticks

vars == <<limit, source, save_json, save_txt, pc, all_posts, page, requests,
          posts, dirs, fs, saved, raised, now>>

----------------------------------------------------------------------------
(* Bounds of the model *)

\* input sizes are taken within Near of each multiple of the page maximum
Near == 1
\* multiples of the page maximum around which input sizes are taken
MaxPages == 1
\* last clock tick
MaxTime == 3
\* clock ticks per second of the timestamp's resolution
TicksPerSecond == 2
\* longest collection handed directly to the persister
MaxPosts == 2

(* Program constants *)

\* min(limit or 100, 100)
MaxPerPage == 100
\* safe_title[:50]
TitleMax == 50
\* open(file_path, 'w'): the longest file name the file system takes, in bytes
NameMax == 255
\* open(file_path, 'w'): the longest path the system call takes, in bytes
PathMax == 4095

----------------------------------------------------------------------------
(* Generic helpers *)

Min(a, b) == IF a < b THEN a ELSE b

\* Python's truthiness of an int-or-None argument: None and 0 are falsy
Truthy(n) == n # 0

\* dict.get(key, default)
Get(d, key, default) == IF key \in DOMAIN d THEN d[key] ELSE default

(* Python values, tagged with their type as json.dump sees it *)
PyStr(chars) == <<"str", chars>>
PyInt(n)     == <<"int", n>>
PyNone       == <<"None">>
PyBool(b)    == <<"bool", b>>
PyList(seq)  == <<"list", seq>>

\* the dict built from the key/value pairs items, like a dict literal or
\* dict(pairs): a key written twice keeps its first position and its last
\* value. The second component maps the keys to their values, the third is
\* the keys in insertion order, the order json.dump writes them in
PyDict(items) ==
    LET at    == [i \in DOMAIN items |-> i]
        first == SelectSeq(at, LAMBDA i : \A j \in 1..(i - 1) : items[j][1] # items[i][1])
        Last(k) == CHOOSE i \in DOMAIN items :
                      /\ items[i][1] = k
                      /\ \A j \in DOMAIN items : items[j][1] = k => j <= i
    IN <<"dict",
         [k \in {items[i][1] : i \in DOMAIN items} |-> items[Last(k)][2]],
         [n \in DOMAIN first |-> items[first[n]][1]]>>

\* bool(v) of a Python value: None, 0 and the empty str, list and dict are falsy
PyTruthy(v) ==
    CASE v[1] = "None" -> FALSE
      [] v[1] = "bool" -> v[2]
      [] v[1] = "int"  -> v[2] # 0
      [] v[1] = "str"  -> v[2] # <<>>
      [] v[1] = "list" -> v[2] # <<>>
      [] v[1] = "dict" -> v[3] # <<>>

\* d.get(key, default) on a Python dict
PyGet(d, key, default) == Get(d[2], key, default)

RECURSIVE Digits(_)
\* str(n), as a sequence of characters
Digits(n) ==
    LET d == <<"0", "1", "2", "3", "4", "5", "6", "7", "8", "9">>
    IN IF n < 0 THEN <<"-">> \o Digits(-n)
       ELSE IF n < 10 THEN <<d[n + 1]>>
       ELSE Digits(n \div 10) \o <<d[(n % 10) + 1]>>

(* Exceptions: what an operation yields in place of a value when it raises *)
NoException        == <<"no exception">>
AttributeError     == <<"AttributeError">>
TypeError          == <<"TypeError">>
KeyError           == <<"KeyError">>
ValueError         == <<"ValueError">>
UnicodeEncodeError == <<"UnicodeEncodeError">>
OSError            == <<"OSError">>
FileNotFoundError  == <<"FileNotFoundError">>
NotADirectoryError == <<"NotADirectoryError">>
IsADirectoryError  == <<"IsADirectoryError">>
\* requests.exceptions.RequestException
RequestException   == <<"RequestException">>

\* OUTPUT_DIR and the txt of Path(output_dir) / "txt"
RootName == <<"g", "h", "o", "s", "t", "_", "p", "o", "s", "t", "s">>
TxtName  == <<"t", "x", "t">>

\* the output directory and its text directory, as paths from the working
\* directory
RootDir == <<RootName>>
TxtDir  == <<RootName, TxtName>>

----------------------------------------------------------------------------
(* The upstream source *)

\* an excerpt cut between the two halves of a surrogate pair, as the body
\* "\ud83d" of a response is read by response.json()
CutExcerpt == <<"U+D83D">>

\* the post at position i of the upstream source; the last post of every
\* full page of the source carries a cut excerpt
SourcePost(i) ==
    IF i % MaxPerPage = 0
    THEN PyDict(<<<<"id",      PyStr(Digits(i))>>,
                 <<"slug",    PyStr(<<"p">> \o Digits(i))>>,
                 <<"title",   PyStr(<<"T">> \o Digits(i))>>,
                 <<"excerpt", PyStr(CutExcerpt)>>>>)
    ELSE PyDict(<<<<"id",    PyStr(Digits(i))>>,
                 <<"slug",  PyStr(<<"p">> \o Digits(i))>>,
                 <<"title", PyStr(<<"T">> \o Digits(i))>>>>)

\* the posts endpoint: page p of size s of the source's ordered list
Response(p, s) ==
    LET first == (p - 1) * s + 1
        last  == Min(p * s, source)
    IN [k \in 1..(IF last >= first THEN last - first + 1 ELSE 0) |->
            SourcePost(first + k - 1)]

\* sizes and limits considered: within Near of a multiple of the page maximum
Sizes ==
    UNION {{n \in (k * MaxPerPage - Near)..(k * MaxPerPage + Near) : n >= 0} :
              k \in 0..MaxPages}

----------------------------------------------------------------------------
(* fetch_all_posts *)

\* per_page = min(limit or 100, 100)
PerPage(l) == Min(IF Truthy(l) THEN l ELSE MaxPerPage, MaxPerPage)

\* params['limit']: per_page, or min(remaining, per_page) when a limit is given
RequestSize(l, got) ==
    IF Truthy(l) THEN Min(l - got, PerPage(l)) ELSE PerPage(l)

\* the short-page test left out
ShortPageNever(n, l) == FALSE

\* if len(posts) < per_page: break
ShortPage(n, l) == n < PerPage(l)

\* if limit and len(all_posts) >= limit: break
LimitReached(l, total) == Truthy(l) /\ total >= l

\* a failed request ends the loop and the accumulated posts are returned
FailureReturnsPartial(acc, old) ==
    [pc |-> "fetched", posts |-> acc, raised |-> NoException]

\* except RequestException: raise (and fetch_and_save's except Exception: raise):
\* the accumulated posts acc are dropped, the caller's collection stays as it was
FailureOutcome(acc, old) ==
    [pc |-> "raised", posts |-> old, raised |-> RequestException]

\* the entry recorded for one page request
RequestEntry(p, s, status, count, total) ==
    [page |-> p, limit |-> s, status |-> status, count |-> count, total |-> total]

\* fetch_and_save up to the first page request: the output directory is
\* created and fetch_all_posts initialises its locals
Begin ==
    /\ pc = "start"
    /\ dirs' = dirs \cup {RootDir}
    /\ all_posts' = <<>>
    /\ page' = 1
    /\ pc' = "fetching"
    /\ UNCHANGED <<limit, source, save_json, save_txt, requests, posts, fs, saved,
                   raised, now>>

\* one iteration of the loop whose request succeeds
FetchPage ==
    /\ pc = "fetching"
    /\ LET size == RequestSize(limit, Len(all_posts))
           resp == Response(page, size)
           acc  == all_posts \o resp
       IN /\ requests' = Append(requests,
                             RequestEntry(page, size, "ok", Len(resp), Len(acc)))
          /\ IF resp = <<>>
             THEN /\ pc' = "fetched"
                  /\ posts' = all_posts
                  /\ UNCHANGED <<all_posts, page>>
             ELSE /\ all_posts' = acc
                  /\ IF ShortPage(Len(resp), limit)
                     THEN /\ pc' = "fetched"
                          /\ posts' = acc
                          /\ UNCHANGED page
                     ELSE /\ page' = page + 1
                          /\ IF LimitReached(limit, Len(acc))
                             THEN pc' = "fetched" /\ posts' = acc
                             ELSE pc' = "fetching" /\ UNCHANGED posts
    /\ UNCHANGED <<limit, source, save_json, save_txt, dirs, fs, saved, raised, now>>

\* one iteration of the loop whose request times out or answers a non-2xx
\* status: the exception leaves fetch_all_posts and fetch_and_save
RequestFails ==
    /\ pc = "fetching"
    /\ requests' = Append(requests,
                      RequestEntry(page, RequestSize(limit, Len(all_posts)),
                                   "failed", 0, Len(all_posts)))
    /\ pc' = FailureOutcome(all_posts, posts).pc
    /\ posts' = FailureOutcome(all_posts, posts).posts
    /\ raised' = FailureOutcome(all_posts, posts).raised
    /\ UNCHANGED <<limit, source, save_json, save_txt, all_posts, page, dirs, fs,
                   saved, now>>

----------------------------------------------------------------------------
(* Characters *)

\* A str is a sequence of characters. A printable ASCII character other than
\* the grave accent, a tab, a line feed, a form feed and a carriage return
\* are written as themselves; every other character is written as the name
\* of its code point, "U+" and its four or more upper-case hexadecimal digits
\* ("U+000B", "U+0060", "U+00E9", "U+1F600").

\* the characters of code points 32..95 and 97..126
Printable ==
    <<" ", "!", "\"", "#", "$", "%", "&", "'", "(", ")", "*", "+", ",", "-", ".", "/",
      "0", "1", "2", "3", "4", "5", "6", "7", "8", "9", ":", ";", "<", "=", ">", "?",
      "@", "A", "B", "C", "D", "E", "F", "G", "H", "I", "J", "K", "L", "M", "N", "O",
      "P", "Q", "R", "S", "T", "U", "V", "W", "X", "Y", "Z", "[", "\\", "]", "^", "_",
      "a", "b", "c", "d", "e", "f", "g", "h", "i", "j", "k", "l", "m", "n", "o",
      "p", "q", "r", "s", "t", "u", "v", "w", "x", "y", "z", "{", "|", "}", "~">>

HexLower == <<"0", "1", "2", "3", "4", "5", "6", "7", "8", "9", "a", "b", "c", "d", "e", "f">>
HexUpper == <<"0", "1", "2", "3", "4", "5", "6", "7", "8", "9", "A", "B", "C", "D", "E", "F">>

RECURSIVE CodePointName(_, _)
\* the hexadecimal digits of n, at least width of them, as one string
CodePointName(n, width) ==
    IF n = 0 /\ width <= 0 THEN ""
    ELSE CodePointName(n \div 16, width - 1) \o HexUpper[(n % 16) + 1]

\* chr(n)
Chr(n) ==
    CASE n = 9          -> "\t"
      [] n = 10         -> "\n"
      [] n = 12         -> "\f"
      [] n = 13         -> "\r"
      [] n \in 32..95   -> Printable[n - 31]
      [] n \in 97..126  -> Printable[n - 32]
      [] OTHER          -> "U+" \o CodePointName(n, 4)

\* the surrogate code points, which no UTF-8 text holds
Surrogates == {Chr(n) : n \in 55296..57343}

\* the surrogates a file name may hold: os.fsencode writes each of U+DC80 to
\* U+DCFF as the one byte it stands for (surrogateescape)
EscapedBytes == {Chr(n) : n \in 56448..56575}

\* the characters UTF-8 writes as one byte and as two bytes
OneByte  == {Chr(n) : n \in 0..127}
TwoBytes == {Chr(n) : n \in 128..2047}

\* len(os.fsencode(s)): a character named with more than four hexadecimal
\* digits takes four bytes, any other one outside the two sets above three
Utf8Len(s) ==
    LET Four(c)  == Len(c) > 6
        Two(c)   == Len(c) = 6 /\ c \in TwoBytes
        Three(c) == Len(c) = 6 /\ c \notin OneByte \cup TwoBytes \cup EscapedBytes
    IN Len(s) + Cardinality({i \in DOMAIN s : Two(s[i])})
              + 2 * Cardinality({i \in DOMAIN s : Three(s[i])})
              + 3 * Cardinality({i \in DOMAIN s : Four(s[i])})

\* whether the characters s cannot be written as UTF-8
Unencodable(s) == \E i \in DOMAIN s : s[i] \in Surrogates

RECURSIVE HasSurrogate(_)
\* whether a str anywhere in the Python value v cannot be written as UTF-8
HasSurrogate(v) ==
    CASE v[1] = "str"  -> Unencodable(v[2])
      [] v[1] = "list" -> \E i \in DOMAIN v[2] : HasSurrogate(v[2][i])
      [] v[1] = "dict" -> \E k \in DOMAIN v[2] : HasSurrogate(v[2][k])
      [] OTHER         -> FALSE

----------------------------------------------------------------------------
(* Text helpers *)

\* s[:n]
Take(s, n) == SubSeq(s, 1, Min(n, Len(s)))

\* whether pat occurs in s at position i
StartsWith(s, i, pat) ==
    /\ i + Len(pat) - 1 <= Len(s)
    /\ SubSeq(s, i, i + Len(pat) - 1) = pat

\* the first position >= i at which pat occurs in s, 0 when there is none
Find(s, i, pat) ==
    LET c == {j \in i..Len(s) : StartsWith(s, j, pat)}
    IN IF c = {} THEN 0 ELSE CHOOSE j \in c : \A k \in c : j <= k

RECURSIVE Join(_, _)
\* sep.join(parts)
Join(parts, sep) ==
    IF parts = <<>> THEN <<>>
    ELSE IF Len(parts) = 1 THEN parts[1]
    ELSE LET half == Len(parts) \div 2
         IN Join(SubSeq(parts, 1, half), sep) \o sep
                \o Join(SubSeq(parts, half + 1, Len(parts)), sep)

\* str(v) as an f-string formats it
Format(v) ==
    CASE v[1] = "str"  -> v[2]
      [] v[1] = "int"  -> Digits(v[2])
      [] v[1] = "None" -> <<"N", "o", "n", "e">>
      [] v[1] = "bool" -> IF v[2] THEN <<"T", "r", "u", "e">>
                                  ELSE <<"F", "a", "l", "s", "e">>

----------------------------------------------------------------------------
(* strip_html_tags *)

Script == <<"s", "c", "r", "i", "p", "t">>
Style  == <<"s", "t", "y", "l", "e">>

\* the last position of a match of <(script|style)[^>]*>.*?</\1> that starts
\* at position i of s, 0 when there is none
BlockEnd(s, i) ==
    LET EndFor(name) ==
            IF ~StartsWith(s, i, <<"<">> \o name) THEN 0
            ELSE LET gt == Find(s, i + 1 + Len(name), <<">">>)
                 IN IF gt = 0 THEN 0
                    ELSE LET close == Find(s, gt + 1, <<"<", "/">> \o name \o <<">">>)
                         IN IF close = 0 THEN 0 ELSE close + Len(name) + 2
    IN IF EndFor(Script) > 0 THEN EndFor(Script) ELSE EndFor(Style)

\* the script and style blocks left in place
RemoveBlocksNever(s, i) == SubSeq(s, i, Len(s))

RECURSIVE RemoveBlocksIn(_, _, _)
\* re.sub(r'<(script|style)[^>]*>.*?</\1>', '', ...) over the positions
\* i..last of s, left to right: a match that starts at a position is dropped
\* and the scan goes on after it; any other position gives its character.
\* The result is the text and the position the scan stops at
RemoveBlocksIn(s, i, last) ==
    IF i > last THEN [text |-> <<>>, next |-> i]
    ELSE IF i = last
    THEN IF BlockEnd(s, i) > 0 THEN [text |-> <<>>, next |-> BlockEnd(s, i) + 1]
         ELSE [text |-> <<s[i]>>, next |-> i + 1]
    ELSE LET left  == RemoveBlocksIn(s, i, (i + last) \div 2)
             right == RemoveBlocksIn(s, left.next, last)
         IN [text |-> left.text \o right.text, next |-> right.next]

\* re.sub(r'<(script|style)[^>]*>.*?</\1>', '', s, flags=re.DOTALL), from position i
RemoveBlocksFrom(s, i) == RemoveBlocksIn(s, i, Len(s)).text

\* the last position of a match of <[^>]+> that starts at position i, 0 when none
TagEnd(s, i) ==
    IF s[i] # "<" THEN 0
    ELSE LET gt == Find(s, i + 1, <<">">>)
         IN IF gt > i + 1 THEN gt ELSE 0

RECURSIVE ReplaceTagsIn(_, _, _)
\* re.sub(r'<[^>]+>', '\n', ...) over the positions i..last of s, left to
\* right: a match that starts at a position gives a newline and the scan goes
\* on after it; any other position gives its character
ReplaceTagsIn(s, i, last) ==
    IF i > last THEN [text |-> <<>>, next |-> i]
    ELSE IF i = last
    THEN IF TagEnd(s, i) > 0 THEN [text |-> <<"\n">>, next |-> TagEnd(s, i) + 1]
         ELSE [text |-> <<s[i]>>, next |-> i + 1]
    ELSE LET left  == ReplaceTagsIn(s, i, (i + last) \div 2)
             right == ReplaceTagsIn(s, left.next, last)
         IN [text |-> left.text \o right.text, next |-> right.next]

\* re.sub(r'<[^>]+>', '\n', s), from position i
ReplaceTagsFrom(s, i) == ReplaceTagsIn(s, i, Len(s)).text

\* re.sub(r'\n+', '\n', s)
CollapseNewlines(s) ==
    LET keep == {i \in 1..Len(s) : ~(s[i] = "\n" /\ i > 1 /\ s[i - 1] = "\n")}
        Nth(k) == CHOOSE i \in keep : Cardinality({j \in keep : j <= i}) = k
    IN [k \in 1..Cardinality(keep) |-> s[Nth(k)]]

\* the characters str.strip() removes: those for which str.isspace() holds
Whitespace ==
    {Chr(n) : n \in (9..13) \cup (28..32) \cup {133, 160, 5760} \cup (8192..8202)
                       \cup {8232, 8233, 8239, 8287, 12288}}

\* s.strip()
Strip(s) ==
    LET ink == {i \in 1..Len(s) : s[i] \notin Whitespace}
    IN IF ink = {} THEN <<>>
       ELSE SubSeq(s, CHOOSE i \in ink : \A j \in ink : i <= j,
                      CHOOSE i \in ink : \A j \in ink : i >= j)

\* strip_html_tags(html_content): '' for a falsy argument (None, 0, False,
\* '', [], {}), the stripped text of a str; re.sub raises TypeError for any
\* other argument
StripHtmlTags(html_content) ==
    IF ~PyTruthy(html_content) THEN <<>>
    ELSE IF html_content[1] # "str" THEN TypeError
    ELSE Strip(CollapseNewlines(ReplaceTagsFrom(RemoveBlocksFrom(html_content[2], 1), 1)))

----------------------------------------------------------------------------
(* json.dump and json.load *)

\* the characters below U+0020, by code point
Control == [n \in 0..31 |-> Chr(n)]

\* what json.dump writes for the character c inside a string literal
\* (ensure_ascii=False): the quote, the backslash and the characters below
\* U+0020 are escaped
EscapeChar(c) ==
    CASE c = "\"" -> <<"\\", "\"">>
      [] c = "\\" -> <<"\\", "\\">>
      [] c = "\n" -> <<"\\", "n">>
      [] c = "\r" -> <<"\\", "r">>
      [] c = "\t" -> <<"\\", "t">>
      [] c = "\f" -> <<"\\", "f">>
      [] c = Control[8] -> <<"\\", "b">>
      [] c \in {Control[n] : n \in 0..31} \ {"\n", "\r", "\t", "\f", Control[8]} ->
            LET n == CHOOSE n \in 0..31 : Control[n] = c
            IN <<"\\", "u", "0", "0", HexLower[(n \div 16) + 1],
                 HexLower[(n % 16) + 1]>>
      [] OTHER    -> <<c>>

\* the body of a JSON string literal for the characters s: the escapes of
\* its characters, one after the other
EscapeString(s) ==
    LET e == [i \in DOMAIN s |-> EscapeChar(s[i])] \o <<>>
        End(i) == i + Cardinality({j \in 1..i : Len(e[j]) = 2})
                    + 5 * Cardinality({j \in 1..i : Len(e[j]) = 6})
        At(k) == CHOOSE i \in DOMAIN s : End(i - 1) < k /\ k <= End(i)
    IN [k \in 1..End(Len(s)) |-> e[At(k)][k - End(At(k) - 1)]]

\* the number four hexadecimal digits stand for
HexValue(ds) ==
    LET V(c) == CHOOSE n \in 0..15 : c \in {HexLower[n + 1], HexUpper[n + 1]}
    IN ((V(ds[1]) * 16 + V(ds[2])) * 16 + V(ds[3])) * 16 + V(ds[4])

\* the outcome of reading a document the decoder rejects
JSONDecodeError == <<"JSONDecodeError">>

\* the characters a JSON string literal's body stands for. Of a run of
\* backslashes every second one, from the first, starts an escape. A \u escape
\* of a high surrogate followed by one of a low surrogate is one character.
\* The decoder rejects a quote or a character below U+0020 that is not
\* escaped, and any escape other than \" \\ \/ \b \f \n \r \t and \u with
\* four hexadecimal digits
UnescapeString(s) ==
    LET N == Len(s)
        RunStart(i) == CHOOSE p \in 1..i :
                          /\ \A k \in p..i : s[k] = "\\"
                          /\ p = 1 \/ s[p - 1] # "\\"
        Esc(i) == i \in 1..N /\ s[i] = "\\" /\ (i - RunStart(i)) % 2 = 0
        Code(i) == IF i < N THEN s[i + 1] ELSE ""
        Hex(i) == SubSeq(s, i, Min(i + 3, N))
        IsU(i) == /\ Esc(i)
                  /\ Code(i) = "u"
                  /\ Len(Hex(i + 2)) = 4
                  /\ \A k \in 1..4 :
                        \E d \in 1..16 : Hex(i + 2)[k] \in {HexLower[d], HexUpper[d]}
        High(i) == IsU(i) /\ HexValue(Hex(i + 2)) \in 55296..56319
        Low(i)  == IsU(i) /\ HexValue(Hex(i + 2)) \in 56320..57343
        Span(i) == IF Code(i) = "u" THEN 6 ELSE 2
        starts == {i \in 1..N :
                      /\ ~\E e \in (i - 5)..(i - 1) : Esc(e) /\ i < e + Span(e)
                      /\ ~(Low(i) /\ High(i - 6))}
        Valid(i) ==
            IF s[i] = "\\"
            THEN Code(i) \in {"\"", "\\", "/", "b", "f", "n", "r", "t"} \/ IsU(i)
            ELSE s[i] # "\"" /\ s[i] \notin {Control[k] : k \in 0..31}
        Char(i) ==
            CASE s[i] # "\\"   -> s[i]
              [] Code(i) = "b" -> Chr(8)
              [] Code(i) = "f" -> "\f"
              [] Code(i) = "n" -> "\n"
              [] Code(i) = "r" -> "\r"
              [] Code(i) = "t" -> "\t"
              [] Code(i) = "u" ->
                    IF High(i) /\ Low(i + 6)
                    THEN Chr(65536 + (HexValue(Hex(i + 2)) - 55296) * 1024
                                   + (HexValue(Hex(i + 8)) - 56320))
                    ELSE Chr(HexValue(Hex(i + 2)))
              [] OTHER         -> Code(i)
        Nth(k) == CHOOSE i \in starts : Cardinality({j \in starts : j <= i}) = k
    IN IF \E i \in starts : ~Valid(i) THEN JSONDecodeError
       ELSE [k \in 1..Cardinality(starts) |-> Char(Nth(k))]

RECURSIVE ParseInt(_)
\* int(s) for a sequence of decimal digits, with or without a minus sign
ParseInt(s) ==
    LET DigitValue(c) == CHOOSE n \in 0..9 : Digits(n) = <<c>>
    IN IF s = <<>> THEN 0
       ELSE IF s[1] = "-" THEN 0 - ParseInt(Tail(s))
       ELSE ParseInt(SubSeq(s, 1, Len(s) - 1)) * 10 + DigitValue(s[Len(s)])

RECURSIVE JsonDump(_)
\* the JSON document json.dump writes for the Python value v; the name of a
\* member is kept whole, as the key it is written for
JsonDump(v) ==
    CASE v[1] = "str"  -> <<"string", EscapeString(v[2])>>
      [] v[1] = "int"  -> <<"number", Digits(v[2])>>
      [] v[1] = "None" -> <<"null">>
      [] v[1] = "bool" -> IF v[2] THEN <<"true">> ELSE <<"false">>
      [] v[1] = "list" -> <<"array", [i \in DOMAIN v[2] |-> JsonDump(v[2][i])]>>
      [] v[1] = "dict" ->
            <<"object", [i \in DOMAIN v[3] |-> <<v[3][i], JsonDump(v[2][v[3][i]])>>]>>

RECURSIVE JsonLoad(_)
\* the Python value json.load reads from the JSON document j, JSONDecodeError
\* when the decoder rejects a string literal of it or the file is the cut
\* beginning of a document
JsonLoad(j) ==
    CASE j[1] = "truncated" -> JSONDecodeError
      [] j[1] = "string" ->
            LET chars == UnescapeString(j[2])
            IN IF chars = JSONDecodeError THEN JSONDecodeError ELSE PyStr(chars)
      [] j[1] = "number" -> PyInt(ParseInt(j[2]))
      [] j[1] = "null"   -> PyNone
      [] j[1] = "true"   -> PyBool(TRUE)
      [] j[1] = "false"  -> PyBool(FALSE)
      [] j[1] = "array"  ->
            LET xs == [i \in DOMAIN j[2] |-> JsonLoad(j[2][i])]
            IN IF \E i \in DOMAIN xs : xs[i] = JSONDecodeError THEN JSONDecodeError
               ELSE PyList(xs)
      [] j[1] = "object" ->
            LET xs == [i \in DOMAIN j[2] |-> JsonLoad(j[2][i][2])]
            IN IF \E i \in DOMAIN xs : xs[i] = JSONDecodeError THEN JSONDecodeError
               ELSE PyDict([i \in DOMAIN xs |-> <<j[2][i][1], xs[i]>>])

----------------------------------------------------------------------------
(* The persister *)

\* what an operation of the persister leaves behind: the files of the output
\* directory and the exception it raised, NoException when it returned
Outcome(f, e) == [files |-> f, raised |-> e]

\* f with content written at path
WriteFile(f, path, content) ==
    [p \in DOMAIN f \cup {path} |-> IF p = path THEN content ELSE f[p]]

\* a JSON file json.dump stopped writing: the beginning of the document, up
\* to the string that cannot be written as UTF-8
Truncated == <<"truncated">>

\* a text file that was opened for writing and never written
EmptyFile == <<>>

\* self.ghost_url
GhostUrl == <<"u">>

\* a timestamp that stops at the minute: '%Y%m%d_%H%M'
TimestampToMinute(t) == Digits(t \div (TicksPerSecond * 60))

\* datetime.now().strftime('%Y%m%d_%H%M%S') at tick t: the time to the second
Timestamp(t) == Digits(t \div TicksPerSecond)

\* datetime.now().isoformat() at tick t: the time at the clock's resolution
IsoFormat(t) == Digits(t)

\* output_path / f"ghost_posts_{timestamp}.json"
JsonPath(t) ==
    <<RootDir, <<"g", "h", "o", "s", "t", "_", "p", "o", "s", "t", "s", "_">>
              \o Timestamp(t) \o <<".", "j", "s", "o", "n">>>>

\* output_data
OutputData(ps, t) ==
    PyDict(<<<<"metadata", PyDict(<<<<"fetched_at",  PyStr(IsoFormat(t))>>,
                                 <<"total_posts", PyInt(Len(ps))>>,
                                 <<"source",      PyStr(GhostUrl)>>>>)>>,
            <<"posts",    PyList(ps)>>>>)

\* with open(file, 'w', encoding='utf-8') as f: json.dump(data, f,
\* ensure_ascii=False, indent=2): a str of the data that holds a surrogate
\* cannot be encoded, the write raises and the file stays cut short
DumpTo(f, path, data) ==
    IF HasSurrogate(data)
    THEN Outcome(WriteFile(f, path, Truncated), UnicodeEncodeError)
    ELSE Outcome(WriteFile(f, path, JsonDump(data)), NoException)

\* save_as_json: the name is formed at tick t1, the metadata at tick t2
SaveAsJson(f, ps, t1, t2) == DumpTo(f, JsonPath(t1), OutputData(ps, t2))

\* the exception [x['name'] for x in post.get(key, [])] raises: a value that
\* is not iterable, or the first element that is not a dict (the characters
\* of a str and the keys of a dict are such elements) or has no name
NamesError(post, key) ==
    LET v   == PyGet(post, key, PyList(<<>>))
        bad == {i \in DOMAIN v[2] : v[2][i][1] # "dict" \/ "name" \notin DOMAIN v[2][i][2]}
        at  == CHOOSE i \in bad : \A j \in bad : i <= j
    IN CASE v[1] = "list" ->
               IF bad = {} THEN NoException
               ELSE IF v[2][at][1] # "dict" THEN TypeError ELSE KeyError
         [] v[1] \in {"str", "dict"} ->
               IF PyTruthy(v) THEN TypeError ELSE NoException
         [] OTHER -> TypeError

\* [x['name'] for x in post.get(key, [])]
Names(post, key) ==
    LET v == PyGet(post, key, PyList(<<>>))
    IN IF NamesError(post, key) # NoException THEN NamesError(post, key)
       ELSE IF v[1] = "list" THEN [i \in DOMAIN v[2] |-> v[2][i][2]["name"]]
       ELSE <<>>

\* the exception building the projection of post raises: post.get on a post
\* that is no dict, or the tag names
EntryError(post) ==
    IF post[1] # "dict" THEN AttributeError ELSE NamesError(post, "tags")

\* the slim projection of one post
IndexEntry(post) ==
    IF EntryError(post) # NoException THEN EntryError(post)
    ELSE PyDict(<<<<"id",           PyGet(post, "id", PyNone)>>,
                 <<"slug",         PyGet(post, "slug", PyNone)>>,
                 <<"title",        PyGet(post, "title", PyNone)>>,
                 <<"excerpt",      PyGet(post, "excerpt", PyNone)>>,
                 <<"published_at", PyGet(post, "published_at", PyNone)>>,
                 <<"reading_time", PyGet(post, "reading_time", PyNone)>>,
                 <<"tags",         PyList(Names(post, "tags"))>>,
                 <<"url",          PyGet(post, "url", PyNone)>>>>)

\* output_path / "index.json"
IndexPath == <<RootDir, <<"i", "n", "d", "e", "x", ".", "j", "s", "o", "n">>>>

\* save_index, with d the directories that exist: the projections are built first, so a
\* post that raises leaves the index file untouched; the directory is not
\* created, so the file cannot be opened in a missing one
SaveIndex(d, f, ps) ==
    LET bad == {i \in DOMAIN ps : EntryError(ps[i]) # NoException}
    IN IF bad # {}
       THEN Outcome(f, EntryError(ps[CHOOSE i \in bad : \A j \in bad : i <= j]))
       ELSE IF RootDir \notin d THEN Outcome(f, FileNotFoundError)
       ELSE DumpTo(f, IndexPath, PyList([i \in DOMAIN ps |-> IndexEntry(ps[i])]))

\* the characters replaced in a title
Illegal == {"<", ">", ":", "\"", "/", "\\", "|", "?", "*"}

\* a character class that lost its backslash: r'[<>:"/\|?*]'
SafeTitleBackslashKept(title) ==
    [i \in DOMAIN title |->
        IF title[i] \in Illegal \ {"\\"} THEN "_" ELSE title[i]]

\* re.sub(r'[<>:"/\\|?*]', '_', title)
SafeTitle(title) == [i \in DOMAIN title |-> IF title[i] \in Illegal THEN "_" ELSE title[i]]

\* the defaults of post.get for a missing title and a missing id
Untitled  == <<"u", "n", "t", "i", "t", "l", "e", "d">>
Unknown   == <<"u", "n", "k", "n", "o", "w", "n">>
\* the default excerpt, three characters
NoExcerpt == <<Chr(26080), Chr(25688), Chr(35201)>>

\* title = post.get('title', 'untitled'): AttributeError for a post that is
\* no dict; the title is used as a str, and re.sub raises TypeError for any
\* other value
TitleOf(post) ==
    IF post[1] # "dict" THEN AttributeError
    ELSE IF PyGet(post, "title", PyStr(Untitled))[1] # "str" THEN TypeError
    ELSE PyGet(post, "title", PyStr(Untitled))[2]

\* slug = post.get('slug', f"post-{post.get('id', 'unknown')}")
SlugOf(post) ==
    Format(PyGet(post, "slug",
                 PyStr(<<"p", "o", "s", "t", "-">> \o Format(PyGet(post, "id", PyStr(Unknown))))))

\* safe_filename = f"{slug}_{safe_title[:50]}.txt", or the exception the
\* title raises
SafeFilename(post) ==
    IF TitleOf(post) \in {AttributeError, TypeError} THEN TitleOf(post)
    ELSE SlugOf(post) \o <<"_">> \o Take(SafeTitle(TitleOf(post)), TitleMax)
                      \o <<".", "t", "x", "t">>

\* ', '.join(names): TypeError for a name that is no str
JoinNames(names) ==
    IF \E i \in DOMAIN names : names[i][1] # "str" THEN TypeError
    ELSE Join([i \in DOMAIN names |-> names[i][2]], <<",", " ">>)

\* the exception one turn of save_as_txt's loop raises before it opens the
\* file, in the order the code evaluates: the title, the HTML body, the tags
\* and their join, the authors and their join
TxtError(post) ==
    IF TitleOf(post) \in {AttributeError, TypeError} THEN TitleOf(post)
    ELSE IF StripHtmlTags(PyGet(post, "html", PyStr(<<>>))) = TypeError THEN TypeError
    ELSE IF NamesError(post, "tags") # NoException THEN NamesError(post, "tags")
    ELSE IF JoinNames(Names(post, "tags")) = TypeError THEN TypeError
    ELSE IF NamesError(post, "authors") # NoException THEN NamesError(post, "authors")
    ELSE IF JoinNames(Names(post, "authors")) = TypeError THEN TypeError
    ELSE NoException

\* txt_content: the variable parts of the banner layout, in order, or the
\* exception raised while they are formed
TxtContent(post) ==
    LET Content(error) ==
            IF error # NoException THEN error
            ELSE [title        |-> TitleOf(post),
                  excerpt      |-> Format(PyGet(post, "excerpt", PyStr(NoExcerpt))),
                  published_at |-> Format(PyGet(post, "published_at", PyStr(<<>>))),
                  reading_time |-> Format(PyGet(post, "reading_time", PyInt(0))),
                  tags         |-> JoinNames(Names(post, "tags")),
                  authors      |-> JoinNames(Names(post, "authors")),
                  text         |-> StripHtmlTags(PyGet(post, "html", PyStr(<<>>)))]
    IN Content(TxtError(post))

(* Opening a text file. The output directory is the relative path
   ghost_posts of main(), its text directory ghost_posts/txt. A directory is
   written as its path from the working directory: the ".." components first,
   as many as the directory lies above the working directory, then the names
   that lead down; <<>> is the working directory itself. A file is written
   as the pair of its directory and its name. The world w the files are
   opened in is a record: w.cwd, the names that lead from the root of the
   file system to the working directory, and w.dirs, the directories that
   exist beside the working directory and the directories above it. Every
   directory can be written to and none is a symbolic link. *)

\* the log file the module opens in the working directory when it is imported
LogName ==
    <<"p", "u", "l", "l", "_", "g", "h", "o", "s", "t", "_", "p", "o", "s", "t", "s",
      ".", "l", "o", "g">>

\* the component that names the directory above
Up == <<".", ".">>

\* s.split('/')
Split(s) ==
    LET cut == <<0>> \o SelectSeq([i \in DOMAIN s |-> i], LAMBDA i : s[i] = "/")
                     \o <<Len(s) + 1>>
    IN [k \in 1..(Len(cut) - 1) |-> SubSeq(s, cut[k] + 1, cut[k + 1] - 1)]

\* the components of name that output_path / name keeps: the empty ones and
\* the "." ones are dropped
Parts(name) == SelectSeq(Split(name), LAMBDA c : c # <<>> /\ c # <<".">>)

\* a name that starts with a slash replaces the output path
Absolute(name) == name # <<>> /\ name[1] = "/"

\* the length in bytes of the path handed to open: the components that are
\* kept, joined by slashes, after ghost_posts/txt or, for an absolute name,
\* after its root, which is two slashes when the name starts with exactly two
PathBytes(name) ==
    LET own  == Utf8Len(name) - Cardinality({i \in DOMAIN name : name[i] = "/"})
                    - Len(SelectSeq(Split(name), LAMBDA c : c = <<".">>))
        lead == IF Len(name) >= 2 /\ name[2] = "/" /\ ~(Len(name) >= 3 /\ name[3] = "/")
                THEN 2 ELSE 1
    IN (IF Absolute(name) THEN lead - 1 ELSE Len(RootName) + 1 + Len(TxtName))
           + Len(Parts(name)) + own

\* whether the directory at is the working directory or lies above it
Above(at) == \A i \in DOMAIN at : at[i] = Up

\* the directory above the directory at; the root of the file system is its
\* own parent
Parent(at, w) ==
    IF ~Above(at) THEN SubSeq(at, 1, Len(at) - 1)
    ELSE IF Len(at) < Len(w.cwd) THEN at \o <<Up>>
    ELSE at

\* the path of the entry called c of the directory at: the entry that leads
\* back towards the working directory is a directory above it or itself
Child(at, c, w) ==
    IF at # <<>> /\ Above(at) /\ c = w.cwd[Len(w.cwd) - Len(at) + 1]
    THEN SubSeq(at, 1, Len(at) - 1)
    ELSE at \o <<c>>

\* whether the path is a directory that exists
IsDir(path, w) == Above(path) \/ path \in w.dirs

\* where a walk stands: the directory reached, or the exception raised
Reached(at) == [dir |-> at, raised |-> NoException]
Failed(e)   == [dir |-> <<>>, raised |-> e]

\* the directory reached from the directory at through the component c, or
\* the exception when c cannot be passed: a name that is too long, a file, or
\* nothing at all; files are the files that exist
Step(at, c, files, w) ==
    IF Utf8Len(c) > NameMax THEN Failed(OSError)
    ELSE IF c = Up THEN Reached(Parent(at, w))
    ELSE IF IsDir(Child(at, c, w), w) THEN Reached(Child(at, c, w))
    ELSE IF <<at, c>> \in files \/ <<at, c>> = <<<<>>, LogName>>
    THEN Failed(NotADirectoryError)
    ELSE Failed(FileNotFoundError)

RECURSIVE Walk(_, _, _, _)
\* the directory reached from where the walk stands through the components
\* parts, one after the other, or the exception of the first component that
\* cannot be passed
Walk(from, parts, files, w) ==
    IF from.raised # NoException \/ parts = <<>> THEN from
    ELSE IF Len(parts) = 1 THEN Step(from.dir, parts[1], files, w)
    ELSE LET half == Len(parts) \div 2
         IN Walk(Walk(from, SubSeq(parts, 1, half), files, w),
                 SubSeq(parts, half + 1, Len(parts)), files, w)

\* the directory the file called name is opened in: the walk starts at the
\* text directory, or at the root of the file system for an absolute name
DirOf(name, files, w) ==
    Walk(Reached(IF Absolute(name) THEN [i \in 1..Len(w.cwd) |-> Up] ELSE TxtDir),
         SubSeq(Parts(name), 1, Len(Parts(name)) - 1), files, w)

\* the file open(output_path / name, 'w') creates or empties
Target(name, w) == <<DirOf(name, {}, w).dir, Parts(name)[Len(Parts(name))]>>

\* the exception open(output_path / name, 'w') raises: a surrogate that
\* stands for no byte, a NUL character, a path or a component that is too
\* long, a directory on the way that does not exist or is a file, a name
\* that is a directory
OpenError(name, files, w) ==
    LET Last(in) ==
            IF in.raised # NoException THEN in.raised
            ELSE IF Utf8Len(Parts(name)[Len(Parts(name))]) > NameMax THEN OSError
            ELSE IF IsDir(Child(in.dir, Parts(name)[Len(Parts(name))], w), w)
            THEN IsADirectoryError
            ELSE NoException
    IN IF \E i \in DOMAIN name : name[i] \in Surrogates \ EscapedBytes
       THEN UnicodeEncodeError
       ELSE IF \E i \in DOMAIN name : name[i] = Chr(0) THEN ValueError
       ELSE IF PathBytes(name) > PathMax THEN OSError
       ELSE Last(DirOf(name, files, w))

\* one turn of save_as_txt's loop, with files the files that exist: the
\* exception raised, the file created or emptied, if any, and what it holds.
\* A content that cannot be written as UTF-8 leaves the opened file empty
TxtWrite(post, files, w) ==
    LET Turn(error, name, content) ==
            LET Opened(open) ==
                    IF open # NoException
                    THEN [raised |-> open, path |-> <<>>, content |-> EmptyFile]
                    ELSE IF \E k \in DOMAIN content : Unencodable(content[k])
                    THEN [raised  |-> UnicodeEncodeError,
                          path    |-> <<Target(name, w)>>,
                          content |-> EmptyFile]
                    ELSE [raised  |-> NoException,
                          path    |-> <<Target(name, w)>>,
                          content |-> content]
            IN IF error # NoException
               THEN [raised |-> error, path |-> <<>>, content |-> EmptyFile]
               ELSE Opened(OpenError(name, files, w))
    IN Turn(TxtError(post), SafeFilename(post), TxtContent(post))

\* save_as_txt in the world w: the output directory and its text directory
\* are created, then the files are written in the order of the collection
\* up to the first post that raises, so of the posts that share a file the
\* last one's content stays
SaveAsTxt(w, f, ps) ==
    LET made == [cwd |-> w.cwd, dirs |-> w.dirs \cup {RootDir, TxtDir}]
        Turns(name) ==
            [i \in DOMAIN ps |->
                TxtWrite(ps[i], DOMAIN f \cup {Target(name[j], made) : j \in 1..(i - 1)},
                         made)]
        After(turn) ==
            LET bad   == {i \in DOMAIN ps : turn[i].raised # NoException}
                stop  == IF bad = {} THEN Len(ps)
                         ELSE CHOOSE i \in bad : \A j \in bad : i <= j
                wrote == {i \in 1..stop : turn[i].path # <<>>}
                paths == {turn[i].path[1] : i \in wrote}
                LastOf(p) == LET at == {i \in wrote : turn[i].path[1] = p}
                             IN CHOOSE i \in at : \A j \in at : j <= i
            IN Outcome([p \in DOMAIN f \cup paths |->
                           IF p \in paths THEN turn[LastOf(p)].content ELSE f[p]],
                       IF bad = {} THEN NoException ELSE turn[stop].raised)
    IN After(Turns([i \in DOMAIN ps |-> SafeFilename(ps[i])] \o <<>>) \o <<>>)

\* the working directory the flow runs in
WorkDir == <<<<"h", "o", "m", "e">>>>

\* the world the persister's files are opened in
Environment == [cwd |-> WorkDir, dirs |-> dirs]

\* the empty-result test left out
EmptyResultNever(ps) == FALSE

\* if not posts
EmptyResult(ps) == ps = <<>>

\* the index written with the text files instead of with the JSON dump
PersistFilesIndexWithTxt(w, f, ps, sj, st, t1, t2) ==
    LET With(out, called) == [files |-> out.files, raised |-> out.raised, txt |-> called]
        Txt(idx) == IF st /\ idx.raised = NoException
                    THEN With(SaveAsTxt(w, idx.files, ps), TRUE)
                    ELSE With(idx, FALSE)
        Index(json) == IF st /\ json.raised = NoException
                       THEN SaveIndex(w.dirs \cup {RootDir}, json.files, ps)
                       ELSE json
    IN Txt(Index(IF sj THEN SaveAsJson(f, ps, t1, t2) ELSE Outcome(f, NoException)))

\* fetch_and_save after the fetch: the files of the output directory, the
\* exception that ended the calls, and whether save_as_txt was called. An
\* exception of save_as_json or save_index leaves the later calls out
PersistFiles(w, f, ps, sj, st, t1, t2) ==
    LET With(out, called) == [files |-> out.files, raised |-> out.raised, txt |-> called]
        Txt(idx) == IF st /\ idx.raised = NoException
                    THEN With(SaveAsTxt(w, idx.files, ps), TRUE)
                    ELSE With(idx, FALSE)
        Index(json) == IF sj /\ json.raised = NoException
                       THEN SaveIndex(w.dirs \cup {RootDir}, json.files, ps)
                       ELSE json
    IN Txt(Index(IF sj THEN SaveAsJson(f, ps, t1, t2) ELSE Outcome(f, NoException)))

\* fetch_and_save after fetch_all_posts has returned; except Exception: raise
\* hands an exception of the persister to the caller
Persist ==
    /\ pc = "fetched"
    /\ IF EmptyResult(posts)
       THEN /\ pc' = "done"
            /\ UNCHANGED <<dirs, fs, saved, raised, now>>
       ELSE \E t2 \in (IF save_json THEN now..Min(now + 1, MaxTime) ELSE {now}) :
              \E out \in {PersistFiles(Environment, fs, posts, save_json, save_txt, now, t2)} :
                 /\ fs' = out.files
                 /\ raised' = out.raised
                 /\ pc' = IF out.raised = NoException THEN "done" ELSE "raised"
                 /\ dirs' = IF out.txt THEN dirs \cup {TxtDir} ELSE dirs
                 /\ saved' = IF out.txt /\ out.raised = NoException
                             THEN Len(posts) ELSE saved
                 /\ now' = t2
    /\ UNCHANGED <<limit, source, save_json, save_txt, all_posts, page, requests, posts>>

\* the wall clock advances
Tick ==
    /\ now < MaxTime
    /\ now' = now + 1
    /\ UNCHANGED <<limit, source, save_json, save_txt, pc, all_posts, page, requests,
                   posts, dirs, fs, saved, raised>>

EmptyFs == [p \in {} |-> <<>>]

Init ==
    /\ limit \in Sizes
    /\ source \in Sizes
    /\ save_json \in BOOLEAN
    /\ save_txt \in BOOLEAN
    /\ pc = "start"
    /\ all_posts = <<>>
    /\ page = 1
    /\ requests = <<>>
    /\ posts = <<>>
    /\ dirs = {}
    /\ fs = EmptyFs
    /\ saved = -1
    /\ raised = NoException
    /\ now = 0

Next == Begin \/ FetchPage \/ RequestFails \/ Persist \/ (pc = "fetched" /\ Tick)

Spec == Init /\ [][Next]_vars

----------------------------------------------------------------------------
(* The persister's operations called on their own *)

PostA ==
    PyDict(<<<<"id",           PyStr(<<"1">>)>>,
            <<"slug",         PyStr(<<"s">>)>>,
            <<"title",        PyStr(<<"a", "/">>)>>,
            <<"html",         PyStr(<<"<", "p", ">", "h", "<", "/", "p", ">">>)>>,
            <<"reading_time", PyInt(12)>>,
            <<"tags",         PyList(<<PyDict(<<<<"name", PyStr(<<"t">>)>>>>),
                                      PyDict(<<<<"name", PyStr(<<"u">>)>>>>)>>)>>>>)
PostB ==
    PyDict(<<<<"id", PyStr(<<"2">>)>>, <<"slug", PyStr(<<"s">>)>>, <<"title", PyStr(<<"a", ":">>)>>>>)
PostC ==
    PyDict(<<<<"id", PyStr(<<"3">>)>>, <<"title", PyStr(<<"\"", "\\", "\n", "\f", Chr(1)>>)>>>>)
PostD ==
    PyDict(<<<<"id", PyStr(<<"4">>)>>, <<"slug", PyStr(<<"d">>)>>, <<"excerpt", PyNone>>>>)
PostE ==
    PyDict(<<<<"id", PyStr(<<"5">>)>>, <<"slug", PyStr(<<"e">>)>>, <<"title", PyStr(<<"e">>)>>,
            <<"excerpt", PyStr(<<"x">>)>>, <<"html", PyStr(<<>>)>>>>)
PostF ==
    PyDict(<<<<"id", PyStr(<<"6">>)>>, <<"slug", PyStr(<<"f">>)>>, <<"title", PyStr(<<"f">>)>>,
            <<"excerpt", PyStr(CutExcerpt)>>>>)

\* the posts the collections handed to the persister are made of
PostUniverse == {PostA, PostB, PostC, PostD, PostE, PostF}

\* the collections handed to the persister
Collections == UNION {[1..n -> PostUniverse] : n \in 0..MaxPosts}

\* save_as_json(posts, output_dir)
CallSaveAsJson ==
    /\ pc = "persist"
    /\ \E t2 \in now..Min(now + 1, MaxTime) :
          \E out \in {SaveAsJson(fs, posts, now, t2)} :
              /\ fs' = out.files
              /\ raised' = out.raised
              /\ now' = t2
    /\ dirs' = dirs \cup {RootDir}
    /\ UNCHANGED <<limit, source, save_json, save_txt, pc, all_posts, page, requests,
                   posts, saved>>

\* save_as_txt(posts, output_dir / "txt"): saved_files is returned when no
\* post raised
CallSaveAsTxt ==
    /\ pc = "persist"
    /\ \E out \in {SaveAsTxt(Environment, fs, posts)} :
          /\ fs' = out.files
          /\ raised' = out.raised
          /\ saved' = IF out.raised = NoException THEN Len(posts) ELSE saved
    /\ dirs' = dirs \cup {RootDir, TxtDir}
    /\ UNCHANGED <<limit, source, save_json, save_txt, pc, all_posts, page, requests,
                   posts, now>>

\* save_index(posts, output_dir)
CallSaveIndex ==
    /\ pc = "persist"
    /\ \E out \in {SaveIndex(dirs, fs, posts)} :
          /\ fs' = out.files
          /\ raised' = out.raised
    /\ UNCHANGED <<limit, source, save_json, save_txt, pc, all_posts, page, requests,
                   posts, dirs, saved, now>>

InitPersist ==
    /\ limit = 0
    /\ source = 0
    /\ save_json = FALSE
    /\ save_txt = FALSE
    /\ pc = "persist"
    /\ all_posts = <<>>
    /\ page = 1
    /\ requests = <<>>
    /\ posts \in Collections
    /\ dirs = {}
    /\ fs = EmptyFs
    /\ saved = -1
    /\ raised = NoException
    /\ now = 0

NextPersist ==
    CallSaveAsJson \/ CallSaveAsTxt \/ CallSaveIndex \/ (pc = "persist" /\ Tick)

SpecPersist == InitPersist /\ [][NextPersist]_vars

----------------------------------------------------------------------------
(* fetch_and_save from the return of fetch_all_posts on, whatever the API sent *)

\* a slug that leads out of the text directory into the output directory
PostG ==
    PyDict(<<<<"id", PyStr(<<"7">>)>>, <<"slug", PyStr(<<".", ".", "/", "g">>)>>,
            <<"title", PyStr(<<"g">>)>>>>)
\* a tag without a name: save_index and save_as_txt raise KeyError
PostH ==
    PyDict(<<<<"id", PyStr(<<"8">>)>>, <<"slug", PyStr(<<"h">>)>>, <<"title", PyStr(<<"h">>)>>,
            <<"tags", PyList(<<PyDict(<<>>)>>)>>>>)
\* a slug that names a directory nobody made: open raises FileNotFoundError
PostI ==
    PyDict(<<<<"id", PyStr(<<"9">>)>>, <<"slug", PyStr(<<"q", "/", "r">>)>>,
            <<"title", PyStr(<<"i">>)>>>>)

\* the collections fetch_all_posts returns: lists of whatever objects the
\* API's JSON held
FetchedCollections ==
    UNION {[1..n -> PostUniverse \cup {PostG, PostH, PostI}] : n \in 0..MaxPosts}

InitSave ==
    /\ limit = 0
    /\ source = 0
    /\ save_json \in BOOLEAN
    /\ save_txt \in BOOLEAN
    /\ pc = "fetched"
    /\ all_posts = <<>>
    /\ page = 1
    /\ requests = <<>>
    /\ posts \in FetchedCollections
    /\ dirs = {RootDir}
    /\ fs = EmptyFs
    /\ saved = -1
    /\ raised = NoException
    /\ now = 0

NextSave == Persist \/ (pc = "fetched" /\ Tick)

SpecSave == InitSave /\ [][NextSave]_vars

----------------------------------------------------------------------------
(* save_as_txt called on single posts: titles and HTML bodies *)

\* the characters titles are made of: every replaced character and a letter
TitleAlphabet == Illegal \cup {"a"}

\* titles: a first character or none, a run of letters whose length is 0 or
\* within Near of the truncation length, a last character or none; and two
\* titles no file can be named after, one with a NUL and one with a surrogate
Titles ==
    LET Short == {<<>>} \cup {<<c>> : c \in TitleAlphabet}
        Fill  == {0} \cup {k \in (TitleMax - Near)..(TitleMax + Near) : k >= 0}
    IN {h \o [i \in 1..k |-> "a"] \o t : h \in Short, t \in Short, k \in Fill}
           \cup {<<Chr(0), "/">>, <<"/", "U+D83D">>}

\* a post with title t, with or without a slug
TitlePost(t, withSlug) ==
    IF withSlug
    THEN PyDict(<<<<"id", PyStr(<<"7">>)>>, <<"slug", PyStr(<<"s", "-", "1">>)>>, <<"title", PyStr(t)>>>>)
    ELSE PyDict(<<<<"id", PyStr(<<"7">>)>>, <<"title", PyStr(t)>>>>)

TagOpen  == <<"<", "p", ">">>
TagClose == <<"<", "/", "p", ">">>
Hello    == <<"H", "e", "l", "l", "o">>
World    == <<" ", "W", "o", "r", "l", "d">>
Bad      == <<"b", "a", "d", "(", ")">>

\* <name>bad()</name>
Block(name) == <<"<">> \o name \o <<">">> \o Bad \o <<"<", "/">> \o name \o <<">">>

\* <p>Hello<script>bad()</script> World</p>
ExampleHtml == TagOpen \o Hello \o Block(Script) \o World \o TagClose

\* the pieces HTML bodies are made of
HtmlPieces == {TagOpen, TagClose, Hello, World, Block(Script), Block(Style), <<"\n">>}

\* longest HTML body, in pieces
MaxPieces == 3

RECURSIVE Flatten(_)
\* the concatenation of a sequence of pieces
Flatten(ps) == IF ps = <<>> THEN <<>> ELSE Head(ps) \o Flatten(Tail(ps))

\* HTML bodies: the example and every sequence of up to MaxPieces pieces
Htmls ==
    {ExampleHtml} \cup {Flatten(ps) : ps \in UNION {[1..n -> HtmlPieces] : n \in 0..MaxPieces}}

\* a post with HTML body h
HtmlPost(h) ==
    PyDict(<<<<"id", PyStr(<<"8">>)>>, <<"slug", PyStr(<<"h">>)>>, <<"title", PyStr(<<"t">>)>>,
            <<"html", PyStr(h)>>>>)

InitTxt ==
    /\ limit = 0
    /\ source = 0
    /\ save_json = FALSE
    /\ save_txt = FALSE
    /\ pc = "persist"
    /\ all_posts = <<>>
    /\ page = 1
    /\ requests = <<>>
    /\ posts \in {<<TitlePost(t, b)>> : t \in Titles, b \in BOOLEAN}
                    \cup {<<HtmlPost(h)>> : h \in Htmls}
    /\ dirs = {}
    /\ fs = EmptyFs
    /\ saved = -1
    /\ raised = NoException
    /\ now = 0

NextTxt == CallSaveAsTxt

SpecTxt == InitTxt /\ [][NextTxt]_vars

----------------------------------------------------------------------------
(* Properties *)

\* the kind of artifact a path holds
KindOfPath(p) ==
    IF p = IndexPath THEN "index"
    ELSE IF p[1] = RootDir /\ StartsWith(p[2], Len(p[2]) - 4, <<".", "j", "s", "o", "n">>)
    THEN "json"
    ELSE "txt"

Kinds == {"json", "index", "txt"}

\* the kinds of artifact present in f
KindsOf(f) == {k \in Kinds : \E p \in DOMAIN f : KindOfPath(p) = k}

\* the paths of f of kind k
PathsOf(f, k) == {p \in DOMAIN f : KindOfPath(p) = k}

\* whether request r met one of the three stop conditions
StopsAfter(r) ==
    /\ r.status = "ok"
    /\ \/ r.count = 0
       \/ r.count < r.limit
       \/ Truthy(limit) /\ r.total >= limit

\* C1: with a limit L >= 1, fetch_all_posts returns exactly min(L, N) posts of
\* a source holding N posts.
C1_ReturnsMinOfLimitAndSource ==
    (pc \in {"fetched", "done"} /\ limit >= 1) => Len(posts) = Min(limit, source)

\* C2: no page request is issued after the first page that returns zero
\* posts, returns fewer posts than requested for it, or brings the running total
\* to the limit: such a page is the last one requested and the loop has ended.
C2_NoRequestAfterStop ==
    \A i \in DOMAIN requests :
        StopsAfter(requests[i]) => (i = Len(requests) /\ pc # "fetching")

\* a second page came back short of its requested size and ended the fetch
C2_Witness ==
    /\ Len(requests) = 2
    /\ requests[2].status = "ok"
    /\ requests[2].count > 0
    /\ requests[2].count < requests[2].limit
    /\ ~StopsAfter(requests[1])
    /\ pc = "fetched"

\* C3: the i-th page request carries page number i, and every request carries
\* the per-page size min(limit, 100) computed before the loop.
C3_SamePageSizeEveryRequest ==
    \A i \in DOMAIN requests :
        requests[i].page = i /\ requests[i].limit = PerPage(limit)

\* C4: a failed page request is the last request issued (no further request,
\* no retry), the failure is raised instead of the accumulated posts being
\* returned, and fetch_and_save has written no artifact.
C4_FailureAborts ==
    /\ \A i \in DOMAIN requests :
          requests[i].status = "failed" =>
              /\ i = Len(requests)
              /\ pc = "raised"
              /\ raised = RequestException
              /\ posts = <<>>
              /\ DOMAIN fs = {}
              /\ saved = -1
    /\ \A i, j \in DOMAIN requests : requests[i].page = requests[j].page => i = j

\* page 2 failed after page 1 had delivered posts, with both kinds of output asked for
C4_Witness ==
    /\ pc = "raised"
    /\ Len(requests) = 2
    /\ requests[2].status = "failed"
    /\ all_posts # <<>>
    /\ save_json
    /\ save_txt

\* C5: when the fetch yields zero posts, fetch_and_save writes no JSON, index
\* or text file whatever the flags, and returns normally.
C5_EmptyFetchWritesNothing ==
    (pc \in {"fetched", "done"} /\ posts = <<>>) =>
        /\ DOMAIN fs = {}
        /\ saved = -1
        /\ raised = NoException
        /\ (pc = "fetched" => ENABLED Persist)

\* fetch_and_save has returned from an empty fetch with both flags set
C5_Witness ==
    /\ pc = "done"
    /\ posts = <<>>
    /\ requests # <<>>
    /\ save_json
    /\ save_txt

\* C6 as stated: for each of the eight subsets of the three artifact kinds
\* there is a setting of fetch_and_save's flags under which exactly the kinds
\* of the subset are written for the fetched non-empty collection.
C6_EightCombinations ==
    (pc = "fetched" /\ posts # <<>>) =>
        \A want \in SUBSET Kinds :
            \E sj, st \in BOOLEAN :
                KindsOf(PersistFiles(Environment, fs, posts, sj, st, now, now).files) = want

\* C6 amended: fetch_and_save has two switches, and whatever posts the API
\* returned and wherever the run ends, the files it has written obey them:
\* no dump and no index exists unless save_json is set and no text file
\* unless save_txt is set; the index never exists without the dump, nor the
\* dump and a text file without the index; and a run over a non-empty
\* collection that returns has written the dump and the index exactly when
\* save_json is set and text files exactly when save_txt is set.
C6_TwoFlagsDecideKinds ==
    LET enabled == (IF save_json THEN {"json", "index"} ELSE {})
                       \cup (IF save_txt THEN {"txt"} ELSE {})
    IN /\ KindsOf(fs) \subseteq enabled
       /\ "index" \in KindsOf(fs) => "json" \in KindsOf(fs)
       /\ {"json", "txt"} \subseteq KindsOf(fs) => "index" \in KindsOf(fs)
       /\ (pc = "done" /\ posts # <<>>) => KindsOf(fs) = enabled

\* a run with save_json alone has written the dump and the index
C6_Witness ==
    /\ pc = "done"
    /\ posts # <<>>
    /\ save_json
    /\ ~save_txt
    /\ KindsOf(fs) = {"json", "index"}

\* C7 as stated: no run of save_as_json changes a JSON dump an earlier run
\* has written.
C7_DumpNeverOverwritten ==
    [][\A p \in PathsOf(fs, "json") : p \in DOMAIN fs' /\ fs'[p] = fs[p]]_vars

\* C7 amended: a run of save_as_json leaves unchanged every JSON dump that an
\* earlier run wrote in another second of the wall clock; only a dump of the
\* same second can be overwritten.
C7_DumpOfAnotherSecondKept ==
    [][\A t \in 0..MaxTime :
          (t \div TicksPerSecond # now \div TicksPerSecond
              /\ JsonPath(t) \in DOMAIN fs)
          => (JsonPath(t) \in DOMAIN fs' /\ fs'[JsonPath(t)] = fs[JsonPath(t)])]_vars

\* two dumps of different seconds are on disk, the later run's beside the earlier's
C7_Witness ==
    /\ Cardinality(PathsOf(fs, "json")) = 2
    /\ JsonPath(0) \in DOMAIN fs
    /\ JsonPath(now) \in DOMAIN fs
    /\ JsonPath(now) # JsonPath(0)

\* C8: after save_as_txt has completed for a collection of length n, the
\* output directory holds n distinct text files, one for each post.
C8_OneTextFilePerPost ==
    saved >= 0 => Cardinality(PathsOf(fs, "txt")) = Len(posts)

\* C9: the index holds one entry per post, in the order of the collection,
\* and the i-th entry's id and slug are those of the i-th post.
C9_IndexMatchesPosts ==
    IndexPath \in DOMAIN fs =>
        LET index == JsonLoad(fs[IndexPath])
        IN /\ index # JSONDecodeError
           /\ Len(index[2]) = Len(posts)
           /\ \A i \in DOMAIN posts :
                 /\ index[2][i][2]["id"] = PyGet(posts[i], "id", PyNone)
                 /\ index[2][i][2]["slug"] = PyGet(posts[i], "slug", PyNone)

\* C10: the posts field of every JSON dump, parsed again, equals the
\* collection in order and content, and the metadata's total count is the
\* collection's length.
C10_JsonRoundTrip ==
    \A p \in PathsOf(fs, "json") :
        LET doc == JsonLoad(fs[p])
        IN /\ doc # JSONDecodeError
           /\ doc[2]["posts"] = PyList(posts)
           /\ doc[2]["metadata"][2]["total_posts"] = PyInt(Len(posts))

\* whether pat occurs in s
Contains(s, pat) == Find(s, 1, pat) # 0

\* the name of the one text file written for a single post
TxtNameWritten == (CHOOSE p \in PathsOf(fs, "txt") : TRUE)[2]

\* C11: the text file name save_as_txt builds is the post's slug, or
\* post-<id> when the slug is missing, then an underscore, then the
\* title-derived segment, then .txt; the segment is the title cut to at most
\* 50 characters with every one of < > : " / \ | ? * replaced and every other
\* character kept; and the file a completed call has written bears that name.
C11_TitleSegmentSanitized ==
    Len(posts) = 1 =>
        LET post   == posts[1][2]
            title  == post["title"][2]
            prefix == IF "slug" \in DOMAIN post THEN post["slug"][2]
                      ELSE <<"p", "o", "s", "t", "-">> \o post["id"][2]
            name   == SafeFilename(posts[1])
            ext    == <<".", "t", "x", "t">>
            seg    == SubSeq(name, Len(prefix) + 2, Len(name) - Len(ext))
        IN /\ saved = 1 => PathsOf(fs, "txt") = {<<TxtDir, name>>}
           /\ StartsWith(name, 1, prefix \o <<"_">>)
           /\ Len(name) >= Len(prefix) + 1 + Len(ext)
           /\ SubSeq(name, Len(name) - Len(ext) + 1, Len(name)) = ext
           /\ Len(seg) <= 50
           /\ Len(seg) = Min(Len(title), 50)
           /\ \A i \in DOMAIN seg :
                 /\ seg[i] \notin {"<", ">", ":", "\"", "/", "\\", "|", "?", "*"}
                 /\ title[i] \notin {"<", ">", ":", "\"", "/", "\\", "|", "?", "*"}
                        => seg[i] = title[i]

\* a post without a slug whose title is longer than 50 characters, starts with
\* a backslash and ends with a character to replace has been written
C11_Witness ==
    /\ saved = 1
    /\ Len(posts) = 1
    /\ "slug" \notin DOMAIN posts[1][2]
    /\ Len(posts[1][2]["title"][2]) > 50
    /\ posts[1][2]["title"][2][1] = "\\"
    /\ posts[1][2]["title"][2][Len(posts[1][2]["title"][2])] = "?"
    /\ PathsOf(fs, "txt") # {}

\* C12: the text written for <p>Hello<script>bad()</script> World</p> contains
\* Hello and World and neither bad() nor < nor >; and for every body made of
\* tags, text and script or style blocks the text holds no block content, no
\* tag delimiter and no run of newlines, and it holds Hello and World exactly
\* when the body does.
C12_StripHtmlTags ==
    (saved = 1 /\ Len(posts) = 1 /\ "html" \in DOMAIN posts[1][2]) =>
        LET html == posts[1][2]["html"][2]
            text == fs[<<TxtDir, TxtNameWritten>>].text
        IN /\ html = ExampleHtml =>
                 /\ Contains(text, Hello)
                 /\ Contains(text, <<"W", "o", "r", "l", "d">>)
           /\ ~Contains(text, Bad)
           /\ ~Contains(text, <<"<">>)
           /\ ~Contains(text, <<">">>)
           /\ ~Contains(text, <<"\n", "\n">>)
           /\ Contains(text, Hello) <=> Contains(html, Hello)
           /\ Contains(text, <<"W", "o", "r", "l", "d">>) <=> Contains(html, World)

\* the example body has been written as Hello World
C12_Witness ==
    /\ saved = 1
    /\ Len(posts) = 1
    /\ "html" \in DOMAIN posts[1][2]
    /\ posts[1][2]["html"][2] = ExampleHtml
    /\ fs[<<TxtDir, TxtNameWritten>>].text = Hello \o World

\* C13: against the offset-paged source fetch_all_posts returns the first
\* min(L, N) posts of the source in source order, none twice, and with no limit
\* all N posts in source order.
C13_ReturnsPrefixOfSource ==
    pc \in {"fetched", "done"} =>
        posts = [i \in 1..(IF limit = 0 THEN source ELSE Min(limit, source)) |->
                    SourcePost(i)]

====
